---------------------------- MODULE Spec2Model ----------------------------
(***************************************************************************)
(* Hand-Writing (ZenScribe): a model of the App component's navigation,    *)
(* insight fetching and pronunciation state (src/App.tsx), of the insight  *)
(* service with its cache and retry wrapper (geminiService, kept in        *)
(* src/unnamed/part_001) and of the cloud speech service                   *)
(* (src/services/ttsService.ts).                                           *)
(*                                                                         *)
(* Characters are modelled by short ASCII names.  "yong", "he", "jiu" and  *)
(* "nian" are the four characters of DEFAULT_TEXT, which are written the   *)
(* same way in both scripts; "dongT"/"dongS" are the Traditional and the   *)
(* Simplified form of one character; "sp" is a whitespace character.       *)
(* The empty string is JavaScript's '' (no current character).             *)
(***************************************************************************)
EXTENDS Integers, Sequences, FiniteSets, TLC

VARIABLES
    \* ---- App state (src/App.tsx:11-23) ----
    inputText,          \* useState(DEFAULT_TEXT): the text box
    activeText,         \* useState(DEFAULT_TEXT): the practised text
    currentIndex,       \* useState(0): 0-based position
    isSimplified,       \* useState(false)
    insights,           \* useState(null): displayed CharacterInfo, Null when absent
    isLoadingInsights,  \* useState(false)
    isSpeaking,         \* useState(false)
    useCloudVoice,      \* useState(false)
    \* ---- pending callbacks and promises ----
    timers,             \* FIFO of pending setTimeout(handleNext, 1200) closures
    inflight,           \* getCharacterInsights calls awaiting the remote service
    nextId,             \* next identity of an in-flight call
    calls,              \* log of playPronunciation calls with their position
    \* ---- module state of the services ----
    hasKey,             \* process.env.API_KEY is configured
    insightsCache,      \* insightsCache: character -> CharacterInfo (Null = no entry)
    \* ---- observation of getCharacterInsights ----
    remoteCalls,        \* per character: invocations of ai.models.generateContent
    firstResolved,      \* per character: the first value a call resolved with
    lastCall,           \* the last call made for an already resolved character
    svc,                \* the last event of a direct getCharacterInsights call
    \* ---- speech voices and animation speed (src/App.tsx:14, 20-22) ----
    voices,             \* useState([]): the device voices
    selectedVoice,      \* useState(null): NoVoice when null
    speed,              \* useState(1)
    \* ---- the two WritingBoard components (src/components/WritingBoard.tsx)
    wb,                 \* the writers they created and the props they have
    \* ---- one run of decodeAudioData (src/unnamed/part_001:135-152) ----
    dec,                \* its arguments, position and result
    \* ---- one run of withRetry ----
    wr

vars == <<inputText, activeText, currentIndex, isSimplified, insights,
          isLoadingInsights, isSpeaking, useCloudVoice, timers, inflight,
          nextId, calls, hasKey, insightsCache, remoteCalls, firstResolved,
          lastCall, svc, voices, selectedVoice, speed, wb, dec, wr>>

navVars     == <<inputText, activeText, currentIndex, isSimplified, timers>>
insightVars == <<insights, isLoadingInsights, inflight, nextId, insightsCache,
                 remoteCalls, firstResolved, lastCall>>
speakVars   == <<isSpeaking, useCloudVoice, calls>>
voiceVars   == <<voices, selectedVoice>>
otherVars   == <<hasKey, svc, speed, wb, dec>>

---------------------------------------------------------------------------
(* Bounds *)

\* total number of remote insight requests started in one behaviour
MaxFetches == 3
\* number of pending auto-advance timers
MaxTimers == 2
\* distinct answers the generative service may give for one character
MaxVersions == 2
\* playPronunciation calls in one behaviour
MaxCalls == 3
\* largest retry budget given to withRetry
MaxRetries == 3
\* number of voices the device reports
MaxVoices == 2
\* bytes given to decodeAudioData
MaxBytes == 8
\* writers created by the two boards in one behaviour
MaxWriters == 6

---------------------------------------------------------------------------
(* Characters and texts *)

Whitespace == {"sp"}
NonWsChars == {"yong", "he", "jiu", "nian", "dongT", "dongS"}

DEFAULT_TEXT == <<"yong", "he", "jiu", "nian">>

\* texts the user types into the input box
TypedTexts == { <<>>, <<"sp">>, <<"dongS", "sp", "yong">>, <<"he">> }

\* /\S/.test(c)
IsNonWs(c) == c \notin Whitespace

\* activeText.split("").filter((c) => /\S/.test(c))
Characters(text) == SelectSeq(text, IsNonWs)

\* characters[currentIndex] || ""
CharAt(text, idx) ==
    IF idx >= 0 /\ idx < Len(Characters(text))
    THEN Characters(text)[idx + 1] ELSE ""

CurrentChar == CharAt(activeText, currentIndex)

\* a guard that lets every input through
TrimTruthy_AcceptsBlank(text) == TRUE

\* inputText.trim() is truthy
TrimTruthy(text) == \E i \in 1..Len(text) : IsNonWs(text[i])

\* OpenCC.Converter({ from: "cn", to: "tw" }), character by character
Cn2TwChar(c) == IF c = "dongS" THEN "dongT" ELSE c
cn2tw(text) == [i \in 1..Len(text) |-> Cn2TwChar(text[i])]

\* OpenCC.Converter({ from: "tw", to: "cn" }), character by character
Tw2CnChar(c) == IF c = "dongT" THEN "dongS" ELSE c
tw2cn(text) == [i \in 1..Len(text) |-> Tw2CnChar(text[i])]

Converter(targetSimplified, text) ==
    IF targetSimplified THEN tw2cn(text) ELSE cn2tw(text)

---------------------------------------------------------------------------
(* withRetry's decisions (src/unnamed/part_001:33-43) *)

\* a failure: the attempt that raised it and what its message says
\*   msg = "has429"  the message contains '429'
\*   msg = "no429"   a message without '429'
\*   msg = "none"    no message property at all
ErrorMsgs == {"has429", "no429", "none"}

\* error.message?.includes('429')
Has429(err) == err.msg = "has429"

\* a wrapper that retries every failure while retries remain
ShouldRetry_AnyFailure(retries, err) == retries > 0

\* retries > 0 && error.message?.includes('429')
ShouldRetry(retries, err) == retries > 0 /\ Has429(err)

\* a wrapper that forgets to spend its retry budget
NextRetries_NotSpent(retries) == retries

\* withRetry(fn, retries - 1, delay * 2)
NextRetries(retries) == retries - 1

\* a wrapper that waits the same delay every time
NextDelay_Constant(delay) == delay

NextDelay(delay) == delay * 2

---------------------------------------------------------------------------
(* CharacterInfo values *)

\* complete: the four required fields char, meaning, pinyin, zhuyin are all
\* present (src/unnamed/part_001:3-11, 70)
Null == [char |-> "", ver |-> 0, complete |-> FALSE]
Info(c, v) == [char |-> c, ver |-> v, complete |-> TRUE]

\* a parsed answer that lacks a required field
Partial(c, v) == [char |-> c, ver |-> v, complete |-> FALSE]

\* if (insightsCache[char]) ...
Cached(c) == insightsCache[c] # Null


---------------------------------------------------------------------------
(* getCharacterInsights (src/unnamed/part_001:45-84) *)

\* a service that looks for the credential only after the cache missed,
\* that is never
GetInsightsPath_NoKeyCheck(c) ==
    IF c = "" THEN "absent"
    ELSE IF Cached(c) THEN "cached"
    ELSE "remote"

\* the two early returns: no credential or empty character, then the cache
GetInsightsPath(c) ==
    IF ~hasKey \/ c = "" THEN "absent"
    ELSE IF Cached(c) THEN "cached"
    ELSE "remote"

\* what one invocation of ai.models.generateContent may answer
RemoteOutcomes ==
    {[kind |-> "ok", ver |-> v, msg |-> "none"] : v \in 1..MaxVersions}
    \cup {[kind |-> "okMissing", ver |-> 1, msg |-> "none"]}
    \cup {[kind |-> "badjson", ver |-> 0, msg |-> "none"]}
    \cup {[kind |-> "error", ver |-> 0, msg |-> m] : m \in ErrorMsgs}

\* observation: a call made for a character some call already resolved
NoteCall(c, ret, remote) ==
    IF firstResolved[c] # Null
    THEN [char |-> c, ret |-> ret, remote |-> remote]
    ELSE lastCall

\* a call whose promise is settled with data, seen from fetchInsights:
\* setInsights(data); setIsLoadingInsights(false)     (src/App.tsx:94-96)
ApplyFetched(data) ==
    /\ insights' = data
    /\ isLoadingInsights' = FALSE

\* fetchInsights(char) up to the point where it waits for the remote service
\* (src/App.tsx:90-99); a call answered without the remote service settles
\* in a microtask, before any other event is handled
FetchInsights(c) ==
    IF c = "" THEN UNCHANGED insightVars
    ELSE
      CASE GetInsightsPath(c) = "absent" ->
             /\ ApplyFetched(Null)
             /\ lastCall' = NoteCall(c, Null, FALSE)
             /\ UNCHANGED <<inflight, nextId, insightsCache, remoteCalls,
                            firstResolved>>
        [] GetInsightsPath(c) = "cached" ->
             /\ ApplyFetched(insightsCache[c])
             /\ lastCall' = NoteCall(c, insightsCache[c], FALSE)
             /\ UNCHANGED <<inflight, nextId, insightsCache, remoteCalls,
                            firstResolved>>
        [] GetInsightsPath(c) = "remote" ->
             /\ nextId <= MaxFetches
             /\ isLoadingInsights' = TRUE
             /\ inflight' = inflight \cup
                    {[id |-> nextId, char |-> c, retries |-> 1,
                      delay |-> 1000, waiting |-> FALSE]}
             /\ nextId' = nextId + 1
             /\ remoteCalls' = [remoteCalls EXCEPT ![c] = @ + 1]
             /\ lastCall' = NoteCall(c, Null, TRUE)
             /\ UNCHANGED <<insights, insightsCache, firstResolved>>

\* useEffect(() => fetchInsights(currentChar), [currentChar, fetchInsights])
\* after a render with the new state; fetchInsights is re-created when
\* isSimplified changes (src/App.tsx:98-103)
RunEffects(newText, newIdx, newSimp) ==
    IF CharAt(newText, newIdx) # CurrentChar \/ newSimp # isSimplified
    THEN FetchInsights(CharAt(newText, newIdx))
    ELSE UNCHANGED insightVars

\* the promise of call f settles with data
Settle(f, data) ==
    /\ ApplyFetched(data)
    /\ inflight' = inflight \ {f}
    /\ firstResolved' =
         IF data # Null /\ firstResolved[f.char] = Null
         THEN [firstResolved EXCEPT ![f.char] = data]
         ELSE firstResolved
    /\ UNCHANGED <<nextId, remoteCalls, lastCall>>

\* JSON.parse(response.text.trim()) succeeds: the text is JSON, whatever
\* fields it has (src/unnamed/part_001:77)
Parses(out) == out.kind \in {"ok", "okMissing"}

\* const result = JSON.parse(...) as CharacterInfo: a cast, no field is read
Parsed(c, out) ==
    IF out.kind = "ok" THEN Info(c, out.ver) ELSE Partial(c, out.ver)

\* the failure is handed to withRetry's catch and the call is repeated
Retries(f, out) == out.kind = "error" /\ ShouldRetry(f.retries, out)

\* what the call returns once it settles on the answer out:
\* return result, or catch (error) { return null }
Returned(f, out) == IF Parses(out) THEN Parsed(f.char, out) ELSE Null

\* insightsCache[char] = result, reached only after JSON.parse returned
CacheAfter(f, out) ==
    IF Parses(out)
    THEN [insightsCache EXCEPT ![f.char] = Parsed(f.char, out)]
    ELSE insightsCache

\* the remote service answers the pending request of call f
RemoteAnswers(f, out) ==
    /\ f \in inflight
    /\ ~f.waiting
    /\ insightsCache' = CacheAfter(f, out)
    /\ IF Retries(f, out)
       THEN /\ inflight' = (inflight \ {f}) \cup
                             {[f EXCEPT !.waiting = TRUE]}
            /\ UNCHANGED <<insights, isLoadingInsights, nextId,
                           remoteCalls, firstResolved, lastCall>>
       ELSE Settle(f, Returned(f, out))
    /\ UNCHANGED <<navVars, speakVars, otherVars, voiceVars, wr>>

\* the backoff timer of call f fires: withRetry(fn, retries - 1, delay * 2)
RetryTimerFires(f) ==
    /\ f \in inflight
    /\ f.waiting
    /\ inflight' = (inflight \ {f}) \cup
           {[f EXCEPT !.waiting = FALSE, !.retries = NextRetries(f.retries),
                      !.delay = NextDelay(f.delay)]}
    /\ remoteCalls' = [remoteCalls EXCEPT ![f.char] = @ + 1]
    /\ UNCHANGED <<insights, isLoadingInsights, nextId, insightsCache,
                   firstResolved, lastCall>>
    /\ UNCHANGED <<navVars, speakVars, otherVars, voiceVars, wr>>

---------------------------------------------------------------------------
(* Speech voices and their automatic selection (src/App.tsx:33-64, 262-268) *)

\* a voice name is the sequence of its words, a language tag the sequence of
\* its subtags; null is NoVoice
NoVoice == [name |-> <<>>, lang |-> <<>>]

\* voices a device may report
DeviceVoices ==
    { [name |-> <<"Meijia">>,                         lang |-> <<"zh", "TW">>],
      [name |-> <<"Yating">>,                         lang |-> <<"zh", "TW">>],
      [name |-> <<"Tingting">>,                       lang |-> <<"zh", "CN">>],
      [name |-> <<"Microsoft", "Xiaoxiao", "Online">>, lang |-> <<"zh", "CN">>],
      [name |-> <<"Kangkang">>,                       lang |-> <<"zh", "CN">>],
      [name |-> <<"Sinji">>,                          lang |-> <<"zh", "HK">>],
      [name |-> <<"Samantha">>,                       lang |-> <<"en", "US">>] }

\* the lists getVoices() may return
VoiceLists == UNION {[1..n -> DeviceVoices] : n \in 0..MaxVoices}

\* const targetLang = isSimplified ? "zh-CN" : "zh-TW"
TargetLang(simp) == IF simp THEN <<"zh", "CN">> ELSE <<"zh", "TW">>

\* preferredNames ("Google Putonghua" / "Google Guoyu" stand for the two
\* Google names written in Chinese)
PreferredNames(simp) ==
    IF simp
    THEN {<<"Tingting">>, <<"Lili">>, <<"Google", "Putonghua">>,
          <<"Microsoft", "Xiaoxiao">>}
    ELSE {<<"Meijia">>, <<"HsiaoYu">>, <<"Google", "Guoyu">>,
          <<"Microsoft", "Hanhan">>}

\* v.name.includes(name)
Includes(full, part) ==
    \E i \in 0..(Len(full) - Len(part)) :
        SubSeq(full, i + 1, i + Len(part)) = part

\* preferredNames.some((name) => v.name.includes(name))
NameMatches(v, simp) == \E n \in PreferredNames(simp) : Includes(v.name, n)

\* v.lang.startsWith("zh")
StartsWithZh(v) == Len(v.lang) > 0 /\ v.lang[1] = "zh"

\* voices.find(pred), with hit[i] the value of pred on the i-th voice: the
\* first element satisfying pred, else undefined
Find(vs, hit) ==
    IF \E i \in 1..Len(vs) : hit[i]
    THEN vs[CHOOSE i \in 1..Len(vs) : hit[i] /\ \A j \in 1..(i - 1) : ~hit[j]]
    ELSE NoVoice

\* a || b
OrElse(a, b) == IF a # NoVoice THEN a ELSE b

\* a selection that prefers the language to the name
BestVoice_LangFirst(vs, simp) ==
    LET byName == [i \in 1..Len(vs) |-> NameMatches(vs[i], simp)]
        byLang == [i \in 1..Len(vs) |-> vs[i].lang = TargetLang(simp)]
        byZh   == [i \in 1..Len(vs) |-> StartsWithZh(vs[i])]
    IN  OrElse(Find(vs, byLang), OrElse(Find(vs, byName), Find(vs, byZh)))

\* const bestVoice = voices.find(...) || voices.find(...) || voices.find(...)
BestVoice(vs, simp) ==
    LET byName == [i \in 1..Len(vs) |-> NameMatches(vs[i], simp)]
        byLang == [i \in 1..Len(vs) |-> vs[i].lang = TargetLang(simp)]
        byZh   == [i \in 1..Len(vs) |-> StartsWithZh(vs[i])]
    IN  OrElse(Find(vs, byName), OrElse(Find(vs, byLang), Find(vs, byZh)))

\* the auto-selection effect run with (voices, isSimplified) = (vs, simp)
\* while cur is selected: if (voices.length === 0) return; ...
\* if (bestVoice) setSelectedVoice(bestVoice)
AutoSelect(vs, simp, cur) ==
    IF Len(vs) = 0 THEN cur
    ELSE IF BestVoice(vs, simp) # NoVoice THEN BestVoice(vs, simp)
    ELSE cur

\* loadVoices, at mount and on every voiceschanged event: setVoices(a new
\* array), then the effect of [voices, isSimplified]
VoicesChanged(vs) ==
    /\ voices' = vs
    /\ selectedVoice' = AutoSelect(vs, isSimplified, selectedVoice)
    /\ UNCHANGED <<navVars, insightVars, speakVars, otherVars, wr>>

\* a click in the list of local voices, offered while the cloud voice is off
SelectVoice(v) ==
    /\ ~useCloudVoice
    /\ \E i \in 1..Len(voices) : voices[i] = v
    /\ StartsWithZh(v)
    /\ selectedVoice' = v
    /\ UNCHANGED <<voices, navVars, insightVars, speakVars, otherVars, wr>>

\* onChange={(e) => setSpeed(parseFloat(e.target.value))}
SetSpeed(q) ==
    /\ speed' = q
    /\ UNCHANGED <<hasKey, svc, wb, dec, navVars, insightVars, speakVars,
                   voiceVars, wr>>

---------------------------------------------------------------------------
(* Navigation (src/App.tsx:105-132, 455, 601-605) *)

\* handleNext as created by a render that saw (closIdx, closLen)
NextIndex(closIdx, closLen, prev) ==
    IF closIdx < closLen - 1 THEN prev + 1 ELSE prev

\* handlePrev as created by a render that saw closIdx
PrevIndex(closIdx, prev) ==
    IF closIdx > 0 THEN prev - 1 ELSE prev

\* onChange={(e) => setInputText(e.target.value)}
SetInputText(t) ==
    /\ inputText' = t
    /\ UNCHANGED <<activeText, currentIndex, isSimplified, timers>>
    /\ UNCHANGED <<insightVars, speakVars, otherVars, voiceVars, wr>>

\* an update that keeps the position
handleUpdateText_KeepsIndex ==
    /\ TrimTruthy(inputText)
    /\ LET convertedText == Converter(isSimplified, inputText) IN
         /\ activeText' = convertedText
         /\ inputText' = convertedText
         /\ currentIndex' = currentIndex
         /\ RunEffects(convertedText, currentIndex, isSimplified)
    /\ UNCHANGED <<isSimplified, timers>>
    /\ UNCHANGED <<speakVars, otherVars, voiceVars, wr>>

\* a click on the update button: if (inputText.trim()) { ... }
handleUpdateText ==
    /\ TrimTruthy(inputText)
    /\ LET convertedText == Converter(isSimplified, inputText) IN
         /\ activeText' = convertedText
         /\ inputText' = convertedText
         /\ currentIndex' = 0
         /\ RunEffects(convertedText, 0, isSimplified)
    /\ UNCHANGED <<isSimplified, timers>>
    /\ UNCHANGED <<speakVars, otherVars, voiceVars, wr>>

\* a toggle that also goes back to the first character
handleToggleSimplified_ResetsIndex(targetSimplified) ==
    /\ isSimplified' = targetSimplified
    /\ activeText' = Converter(targetSimplified, activeText)
    /\ inputText' = Converter(targetSimplified, inputText)
    /\ currentIndex' = 0
    /\ RunEffects(Converter(targetSimplified, activeText), 0,
                  targetSimplified)
    /\ selectedVoice' =
         IF targetSimplified # isSimplified
         THEN AutoSelect(voices, targetSimplified, selectedVoice)
         ELSE selectedVoice
    /\ UNCHANGED timers
    /\ UNCHANGED <<speakVars, otherVars, voices, wr>>

handleToggleSimplified(targetSimplified) ==
    /\ isSimplified' = targetSimplified
    /\ activeText' = Converter(targetSimplified, activeText)
    /\ inputText' = Converter(targetSimplified, inputText)
    /\ RunEffects(Converter(targetSimplified, activeText), currentIndex,
                  targetSimplified)
    \* the effect of [voices, isSimplified] runs when the variant changed
    /\ selectedVoice' =
         IF targetSimplified # isSimplified
         THEN AutoSelect(voices, targetSimplified, selectedVoice)
         ELSE selectedVoice
    /\ UNCHANGED <<currentIndex, timers>>
    /\ UNCHANGED <<speakVars, otherVars, voices, wr>>

\* a click on the next button
handleNext ==
    /\ currentIndex' =
         NextIndex(currentIndex, Len(Characters(activeText)), currentIndex)
    /\ RunEffects(activeText, currentIndex', isSimplified)
    /\ UNCHANGED <<inputText, activeText, isSimplified, timers>>
    /\ UNCHANGED <<speakVars, otherVars, voiceVars, wr>>

\* a click on the previous button
handlePrev ==
    /\ currentIndex' = PrevIndex(currentIndex, currentIndex)
    /\ RunEffects(activeText, currentIndex', isSimplified)
    /\ UNCHANGED <<inputText, activeText, isSimplified, timers>>
    /\ UNCHANGED <<speakVars, otherVars, voiceVars, wr>>

\* a click on the chip of position idx: setCurrentIndex(idx)
JumpTo(idx) ==
    /\ idx \in 0..(Len(Characters(activeText)) - 1)
    /\ currentIndex' = idx
    /\ RunEffects(activeText, idx, isSimplified)
    /\ UNCHANGED <<inputText, activeText, isSimplified, timers>>
    /\ UNCHANGED <<speakVars, otherVars, voiceVars, wr>>

\* the quiz of the displayed character is completed: the onComplete of this
\* render runs and may start the auto-advance timer with this render's
\* handleNext
QuizComplete ==
    /\ CurrentChar # ""
    /\ Len(timers) < MaxTimers
    /\ currentIndex < Len(Characters(activeText)) - 1
    /\ timers' = Append(timers, [idx |-> currentIndex,
                                 len |-> Len(Characters(activeText))])
    /\ UNCHANGED <<inputText, activeText, currentIndex, isSimplified>>
    /\ UNCHANGED <<insightVars, speakVars, otherVars, voiceVars, wr>>

\* the oldest auto-advance timer fires and runs the handleNext it was given
TimerFires ==
    /\ timers # <<>>
    /\ currentIndex' =
         NextIndex(Head(timers).idx, Head(timers).len, currentIndex)
    /\ timers' = Tail(timers)
    /\ RunEffects(activeText, currentIndex', isSimplified)
    /\ UNCHANGED <<inputText, activeText, isSimplified>>
    /\ UNCHANGED <<speakVars, otherVars, voiceVars, wr>>

---------------------------------------------------------------------------
(* decodeAudioData (src/unnamed/part_001:135-152) *)

\* byte values of the Uint8Array
Bytes == {0, 1, 128}

\* the Uint8Array arguments, as decodeBase64 returns them (byteOffset 0)
ByteArrays == UNION {[1..n -> Bytes] : n \in 0..MaxBytes}

\* numChannels as the callers pass it
ChannelCounts == {1, 2}

\* element k (from 0) of the Int16Array view: two bytes, low byte first,
\* read as a two's complement number
Int16At(data, k) ==
    LET u == data[2 * k + 1] + 256 * data[2 * k + 2]
    IN  IF u >= 32768 THEN u - 65536 ELSE u

\* new Int16Array(data.buffer, data.byteOffset, data.byteLength / 2): the
\* length argument is truncated to an integer
Int16Length(data) == Len(data) \div 2

\* a decoder that reads channel after channel instead of frame after frame
SampleIndex_Planar(i, numChannels, channel, frames) == channel * frames + i

\* dataInt16[i * numChannels + channel]
SampleIndex(i, numChannels, channel, frames) == i * numChannels + channel

\* the length of the buffer ctx.createBuffer(numChannels, frameCount, ...)
\* makes: frameCount = dataInt16.length / numChannels converted to an
\* unsigned long, that is truncated
BufferLength(data, numChannels) == Int16Length(data) \div numChannels

\* x / 32768.0 kept as a fraction
Scaled(x) == [num |-> x, den |-> 32768]

\* channelData after the loops: i runs while i < frameCount (the quotient
\* before truncation), a write beyond the buffer's length is dropped, an
\* entry never written stays 0
ChannelData(data, numChannels, channel) ==
    LET frames == BufferLength(data, numChannels) IN
    [f \in 1..frames |->
        IF (f - 1) * numChannels < Int16Length(data)
        THEN Scaled(Int16At(data,
                 SampleIndex(f - 1, numChannels, channel, frames)))
        ELSE Scaled(0)]

NoBuffer == [status |-> "none", channels |-> <<>>]

\* the value the returned promise settles with: createBuffer throws
\* NotSupportedError for a length of 0, so the promise is rejected
decodeAudioData(data, numChannels) ==
    IF BufferLength(data, numChannels) = 0
    THEN [status |-> "error", channels |-> <<>>]
    ELSE [status |-> "ok",
          channels |-> [c \in 1..numChannels |->
                          ChannelData(data, numChannels, c - 1)]]

DecIdle == [pc |-> "idle", data |-> <<>>, numChannels |-> 1,
            result |-> NoBuffer]

\* the call runs to its end
Decode ==
    /\ dec.pc = "ready"
    /\ dec' = [dec EXCEPT !.pc = "done",
                          !.result = decodeAudioData(dec.data,
                                                     dec.numChannels)]
    /\ UNCHANGED <<hasKey, svc, speed, wb, navVars, insightVars, speakVars,
                   voiceVars, wr>>

---------------------------------------------------------------------------
(* The two WritingBoard components (src/components/WritingBoard.tsx:12-84)
   as App renders them (src/App.tsx:551-606) *)

\* the speed slider: min 0.25, max 1.5, step 0.25, counted in quarters
Speeds == {1, 4, 6}
DefaultSpeed == 4

\* what App passes down: character, speed, the viewer's size (350, or 180
\* when isDemoCompact) and the quiz board's size (boardSize)
BoardChars == {"yong", "he"}
BoardSpeeds == {4, 6}
ViewerSizes == {350, 180}
QuizSizes == {350, 400}

\* a writer made by HanziWriter.create:
\*   inst     the component instance that made it (the number of the first
\*            writer of that instance)
\*   current  writerRef.current of that instance === this writer
\*   loop     viewer: "animating" (animateCharacter running), "waiting"
\*            (setTimeout(loop, 1500) pending), "stopped"
\*   quiz     quiz: "fresh", "inProgress", "cancelled"
Writer(role, char, inst) ==
    [role |-> role, char |-> char, inst |-> inst, current |-> TRUE,
     loop |-> IF role = "viewer" THEN "animating" ELSE "none",
     quiz |-> IF role = "quiz" THEN "fresh" ELSE "none"]

\* the state after the first render: each component made its first writer
MountedBoards ==
    [writers |-> << Writer("viewer", DEFAULT_TEXT[1], 1),
                    Writer("quiz", DEFAULT_TEXT[1], 2) >>,
     viewer |-> 1, quiz |-> 2,
     props |-> [char |-> DEFAULT_TEXT[1], speed |-> DefaultSpeed,
                vsize |-> 350, qsize |-> 350]]

\* the effect's cleanup run by instance inst: writerRef.current.cancelQuiz()
\* and hideCharacter(); the ref itself is left as it is
Cleanup(ws, inst) ==
    [w \in 1..Len(ws) |->
        IF ws[w].inst = inst /\ ws[w].current /\ ws[w].role = "quiz"
        THEN [ws[w] EXCEPT !.quiz = "cancelled"]
        ELSE ws[w]]

\* initWriter run again by the mounted instance inst: writerRef.current is
\* set to the writer just made
Reinit(ws, inst, role, char) ==
    Append([w \in 1..Len(ws) |->
               IF ws[w].inst = inst THEN [ws[w] EXCEPT !.current = FALSE]
               ELSE ws[w]],
           Writer(role, char, inst))

\* a new component instance is mounted and runs initWriter with its own ref
Mount(ws, role, char) == Append(ws, Writer(role, char, Len(ws) + 1))

\* a quiz board whose effect runs only when character, speed or size change
QuizEffectRuns_StableCallback(old, new) ==
    old.speed # new.speed \/ old.qsize # new.qsize

\* useEffect(..., [initWriter]) of the quiz board: initWriter depends on
\* [character, role, speed, size, onComplete] and App passes a new inline
\* onComplete function with every render
QuizEffectRuns(old, new) == TRUE

\* the same for the viewer, which gets no onComplete
ViewerEffectRuns(old, new) ==
    old.speed # new.speed \/ old.vsize # new.vsize

\* the viewer after App rendered with the props new: a new key unmounts the
\* instance (cleanup) and mounts another
RenderViewer(b, new) ==
    IF new.char # b.props.char
    THEN [b EXCEPT !.writers = Mount(Cleanup(b.writers, b.viewer),
                                     "viewer", new.char),
                   !.viewer = Len(b.writers) + 1]
    ELSE IF ViewerEffectRuns(b.props, new)
    THEN [b EXCEPT !.writers = Reinit(Cleanup(b.writers, b.viewer),
                                      b.viewer, "viewer", new.char)]
    ELSE b

RenderQuiz(b, new) ==
    IF new.char # b.props.char
    THEN [b EXCEPT !.writers = Mount(Cleanup(b.writers, b.quiz),
                                     "quiz", new.char),
                   !.quiz = Len(b.writers) + 1]
    ELSE IF QuizEffectRuns(b.props, new)
    THEN [b EXCEPT !.writers = Reinit(Cleanup(b.writers, b.quiz),
                                      b.quiz, "quiz", new.char)]
    ELSE b

\* a state change makes App render again, with these props for the boards
AppRenders(c, q, vz, qz) ==
    LET new == [char |-> c, speed |-> q, vsize |-> vz, qsize |-> qz] IN
    /\ Len(wb.writers) + 2 <= MaxWriters
    /\ wb' = [RenderQuiz(RenderViewer(wb, new), new) EXCEPT !.props = new]
    /\ UNCHANGED <<hasKey, svc, speed, dec, navVars, insightVars, speakVars,
                   voiceVars, wr>>

\* animateCharacter of the viewer writer w ends (or was stopped by
\* hideCharacter): onComplete runs, if (writerRef.current === writer)
\* setTimeout(loop, 1500)
AnimationCompletes(w) ==
    /\ w \in 1..Len(wb.writers)
    /\ wb.writers[w].loop = "animating"
    /\ wb' = [wb EXCEPT !.writers[w].loop =
                 IF wb.writers[w].current THEN "waiting" ELSE "stopped"]
    /\ UNCHANGED <<hasKey, svc, speed, dec, navVars, insightVars, speakVars,
                   voiceVars, wr>>

\* the 1500 ms timer of writer w fires: loop(), if (writerRef.current ===
\* writer) writer.animateCharacter(...)
LoopTimerFires(w) ==
    /\ w \in 1..Len(wb.writers)
    /\ wb.writers[w].loop = "waiting"
    /\ wb' = [wb EXCEPT !.writers[w].loop =
                 IF wb.writers[w].current THEN "animating" ELSE "stopped"]
    /\ UNCHANGED <<hasKey, svc, speed, dec, navVars, insightVars, speakVars,
                   voiceVars, wr>>

\* the user draws a stroke on the quiz writer w
QuizStroke(w) ==
    /\ w \in 1..Len(wb.writers)
    /\ wb.writers[w].quiz = "fresh"
    /\ wb' = [wb EXCEPT !.writers[w].quiz = "inProgress"]
    /\ UNCHANGED <<hasKey, svc, speed, dec, navVars, insightVars, speakVars,
                   voiceVars, wr>>

---------------------------------------------------------------------------
(* The App with its insight fetches *)

NoCalls == <<>>
SvcIdle == [ev |-> "none", char |-> "", kind |-> "none", ret |-> Null]

\* the device has reported no voice yet
NoVoices ==
    /\ voices = <<>>
    /\ selectedVoice = NoVoice
WrIdle == [pc |-> "idle", retries0 |-> 0, delay0 |-> 0, retries |-> 0,
           delay |-> 0, attempts |-> 0, waits |-> <<>>, outcomes |-> <<>>,
           result |-> [kind |-> "none", id |-> 0, msg |-> "none"]]

\* the state after the first render and its effects: fetchInsights of the
\* first character has been started
InitApp ==
    /\ inputText = DEFAULT_TEXT
    /\ activeText = DEFAULT_TEXT
    /\ isSimplified = FALSE
    /\ timers = <<>>
    /\ insights = Null
    /\ isLoadingInsights = hasKey
    /\ inflight = IF hasKey
                  THEN {[id |-> 1, char |-> DEFAULT_TEXT[1], retries |-> 1,
                         delay |-> 1000, waiting |-> FALSE]}
                  ELSE {}
    /\ nextId = IF hasKey THEN 2 ELSE 1
    /\ insightsCache = [c \in NonWsChars |-> Null]
    /\ remoteCalls = [c \in NonWsChars |->
                        IF hasKey /\ c = DEFAULT_TEXT[1] THEN 1 ELSE 0]
    /\ firstResolved = [c \in NonWsChars |-> Null]
    /\ lastCall = [char |-> "", ret |-> Null, remote |-> FALSE]
    /\ isSpeaking = FALSE
    /\ useCloudVoice = FALSE
    /\ calls = NoCalls
    /\ svc = SvcIdle
    /\ speed = DefaultSpeed
    /\ wb = MountedBoards

\* Navigation: text entry, script toggle, next/prev/jump, quiz completion and
\* the auto-advance timer, in a build without a credential (every insight
\* fetch then settles at once with the absent result)
InitNav ==
    /\ hasKey = FALSE
    /\ currentIndex = 0
    /\ InitApp
    /\ NoVoices
    /\ dec = DecIdle
    /\ wr = WrIdle

NextNav ==
    \/ \E t \in TypedTexts : SetInputText(t)
    \/ handleUpdateText
    \/ \E b \in BOOLEAN : handleToggleSimplified(b)
    \/ handleNext
    \/ handlePrev
    \/ \E idx \in 0..(Len(DEFAULT_TEXT) - 1) : JumpTo(idx)
    \/ QuizComplete
    \/ TimerFires
    \/ \E q \in Speeds : SetSpeed(q)

SpecNav == InitNav /\ [][NextNav]_vars

\* Insight fetches: navigation over the default text and the script toggle
\* start fetches, the remote service answers them in any order
InitInsights ==
    /\ hasKey \in BOOLEAN
    /\ currentIndex = 0
    /\ InitApp
    /\ NoVoices
    /\ dec = DecIdle
    /\ wr = WrIdle

NextInsights ==
    \/ \E b \in BOOLEAN : handleToggleSimplified(b)
    \/ handleNext
    \/ handlePrev
    \/ \E idx \in 0..(Len(DEFAULT_TEXT) - 1) : JumpTo(idx)
    \/ \E f \in inflight : \E out \in RemoteOutcomes : RemoteAnswers(f, out)
    \/ \E f \in inflight : RetryTimerFires(f)

SpecInsights == InitInsights /\ [][NextInsights]_vars

---------------------------------------------------------------------------
(* getCharacterInsights called directly (src/unnamed/part_001:45-84) *)

\* characters the callers pass; "" is the empty string
ServiceChars == {"", "yong", "he"}

\* getCharacterInsights(c) up to its first await
getCharacterInsights(c) ==
    /\ CASE GetInsightsPath(c) = "absent" ->
              /\ svc' = [ev |-> "return", char |-> c, kind |-> "absent",
                         ret |-> Null]
              /\ UNCHANGED <<inflight, nextId, remoteCalls>>
         [] GetInsightsPath(c) = "cached" ->
              /\ svc' = [ev |-> "return", char |-> c, kind |-> "cached",
                         ret |-> insightsCache[c]]
              /\ UNCHANGED <<inflight, nextId, remoteCalls>>
         [] GetInsightsPath(c) = "remote" ->
              /\ nextId <= MaxFetches
              /\ inflight' = inflight \cup
                     {[id |-> nextId, char |-> c, retries |-> 1,
                       delay |-> 1000, waiting |-> FALSE]}
              /\ nextId' = nextId + 1
              /\ remoteCalls' = [remoteCalls EXCEPT ![c] = @ + 1]
              /\ svc' = [ev |-> "request", char |-> c, kind |-> "remote",
                         ret |-> Null]
    /\ UNCHANGED <<insights, isLoadingInsights, insightsCache, firstResolved,
                   lastCall>>
    /\ UNCHANGED <<navVars, speakVars, voiceVars, hasKey, speed, wb, dec, wr>>

\* the remote service answers the pending request of the direct call f
ServiceAnswers(f, out) ==
    /\ f \in inflight
    /\ ~f.waiting
    /\ insightsCache' = CacheAfter(f, out)
    /\ IF Retries(f, out)
       THEN /\ inflight' = (inflight \ {f}) \cup
                             {[f EXCEPT !.waiting = TRUE]}
            /\ svc' = [ev |-> "retry", char |-> f.char, kind |-> out.kind,
                       ret |-> Null]
       ELSE /\ inflight' = inflight \ {f}
            /\ svc' = [ev |-> "settle", char |-> f.char, kind |-> out.kind,
                       ret |-> Returned(f, out)]
    /\ UNCHANGED <<insights, isLoadingInsights, nextId, remoteCalls,
                   firstResolved, lastCall>>
    /\ UNCHANGED <<navVars, speakVars, voiceVars, hasKey, speed, wb, dec, wr>>

\* the module as loaded: empty cache, nothing in flight
InitService ==
    /\ hasKey \in BOOLEAN
    /\ currentIndex = 0
    /\ inputText = DEFAULT_TEXT
    /\ activeText = DEFAULT_TEXT
    /\ isSimplified = FALSE
    /\ timers = <<>>
    /\ insights = Null
    /\ isLoadingInsights = FALSE
    /\ inflight = {}
    /\ nextId = 1
    /\ insightsCache = [c \in NonWsChars |-> Null]
    /\ remoteCalls = [c \in NonWsChars |-> 0]
    /\ firstResolved = [c \in NonWsChars |-> Null]
    /\ lastCall = [char |-> "", ret |-> Null, remote |-> FALSE]
    /\ isSpeaking = FALSE
    /\ useCloudVoice = FALSE
    /\ calls = NoCalls
    /\ svc = SvcIdle
    /\ speed = DefaultSpeed
    /\ wb = MountedBoards
    /\ NoVoices
    /\ dec = DecIdle
    /\ wr = WrIdle

NextService ==
    \/ \E c \in ServiceChars : getCharacterInsights(c)
    \/ \E f \in inflight : \E out \in RemoteOutcomes : ServiceAnswers(f, out)
    \/ \E f \in inflight : RetryTimerFires(f)

SpecService == InitService /\ [][NextService]_vars

---------------------------------------------------------------------------
(* One run of decodeAudioData on every byte array and channel count *)

InitDecode ==
    /\ hasKey = FALSE
    /\ currentIndex = 0
    /\ InitApp
    /\ NoVoices
    /\ wr = WrIdle
    /\ \E d \in ByteArrays, n \in ChannelCounts :
         dec = [pc |-> "ready", data |-> d, numChannels |-> n,
                result |-> NoBuffer]

NextDecode == Decode

SpecDecode == InitDecode /\ [][NextDecode]_vars

---------------------------------------------------------------------------
(* The boards: App renders again and again, animations end, loop timers
   fire, the user draws *)

InitBoard ==
    /\ hasKey = FALSE
    /\ currentIndex = 0
    /\ InitApp
    /\ NoVoices
    /\ dec = DecIdle
    /\ wr = WrIdle

NextBoard ==
    \/ \E c \in BoardChars, q \in BoardSpeeds, vz \in ViewerSizes,
          qz \in QuizSizes : AppRenders(c, q, vz, qz)
    \/ \E w \in 1..MaxWriters : AnimationCompletes(w)
    \/ \E w \in 1..MaxWriters : LoopTimerFires(w)
    \/ \E w \in 1..MaxWriters : QuizStroke(w)

SpecBoard == InitBoard /\ [][NextBoard]_vars

---------------------------------------------------------------------------
(* One run of withRetry(fn, retries, delay) (src/unnamed/part_001:33-43) *)

\* base delays given by the caller (1000 is the default)
RetryDelays == {1, 500, 1000}

\* what one invocation of fn may do: resolve, or reject with a failure
FnOutcomes ==
    {[kind |-> "ok", msg |-> "none"]}
    \cup {[kind |-> "error", msg |-> m] : m \in ErrorMsgs}

\* no run continues past this many invocations
AttemptCap == MaxRetries + 2

\* try { return await fn() } catch (error) { ... }
WrInvoke(out) ==
    /\ wr.pc = "call"
    /\ wr.attempts < AttemptCap
    /\ LET n == wr.attempts + 1
           w == [wr EXCEPT !.attempts = n, !.outcomes = Append(@, out)]
       IN  wr' =
             IF out.kind = "ok"
             THEN [w EXCEPT !.pc = "returned",
                            !.result = [kind |-> "value", id |-> n,
                                        msg |-> "none"]]
             ELSE IF ShouldRetry(wr.retries, out)
             THEN \* await new Promise(resolve => setTimeout(resolve, delay))
                  [w EXCEPT !.pc = "wait", !.waits = Append(@, wr.delay)]
             ELSE \* throw error
                  [w EXCEPT !.pc = "thrown",
                            !.result = [kind |-> "error", id |-> n,
                                        msg |-> out.msg]]
    /\ UNCHANGED <<navVars, insightVars, speakVars, otherVars, voiceVars>>

\* the delay has passed: return withRetry(fn, retries - 1, delay * 2)
WrTimer ==
    /\ wr.pc = "wait"
    /\ wr' = [wr EXCEPT !.pc = "call",
                        !.retries = NextRetries(wr.retries),
                        !.delay = NextDelay(wr.delay)]
    /\ UNCHANGED <<navVars, insightVars, speakVars, otherVars, voiceVars>>

InitRetry ==
    /\ hasKey = FALSE
    /\ currentIndex = 0
    /\ InitApp
    /\ NoVoices
    /\ dec = DecIdle
    /\ \E r \in 0..MaxRetries : \E d \in RetryDelays :
         wr = [WrIdle EXCEPT !.pc = "call", !.retries0 = r, !.delay0 = d,
                             !.retries = r, !.delay = d]

NextRetry ==
    \/ \E out \in FnOutcomes : WrInvoke(out)
    \/ WrTimer

SpecRetry == InitRetry /\ [][NextRetry]_vars

---------------------------------------------------------------------------
(* playPronunciation (src/App.tsx:134-172) and playCloudTTS               *)
(* (src/services/ttsService.ts:18-72)                                      *)
(*                                                                         *)
(* calls[i] is the i-th call of playPronunciation:                         *)
(*   backend     "cloud", "local", or "none" for a call that did nothing   *)
(*   pc          "noop"    returned at the guard                           *)
(*               "entered" past setIsSpeaking(true), still in the handler  *)
(*               "fetch"   awaiting fetch() of the synthesis request       *)
(*               "play"    awaiting audio.play()                           *)
(*               "utter"   utterance handed to speechSynthesis             *)
(*               "done"    playPronunciation and its callbacks are over    *)
(*   sets/clears number of setIsSpeaking(true) / setIsSpeaking(false)      *)
(*   dispatched  a cloud request or a local utterance was started          *)
(*   audio       the Audio element of the call: "none", "playing",         *)
(*               "ended" or "failed"                                       *)
(*   exit        the path on which the call finished                       *)
(***************************************************************************)

NewCall(backend, pc, sets) ==
    [backend |-> backend, pc |-> pc, sets |-> sets, clears |-> 0,
     dispatched |-> FALSE, audio |-> "none", exit |-> "none",
     char |-> CurrentChar, alerted |-> FALSE]

\* a handler runs to completion before any other event is handled
HandlerRunning == \E i \in 1..Len(calls) : calls[i].pc = "entered"

\* a guard that only looks at the character
PlayGuard_IgnoresSpeaking(speaking, char) == char = ""

\* if (isSpeaking || !currentChar) return;
PlayGuard(speaking, char) == speaking \/ char = ""

\* the call enters: the guard, then setIsSpeaking(true)
playPronunciation ==
    /\ ~HandlerRunning
    /\ Len(calls) < MaxCalls
    /\ IF PlayGuard(isSpeaking, CurrentChar)
       THEN /\ calls' = Append(calls, NewCall("none", "noop", 0))
            /\ UNCHANGED isSpeaking
       ELSE /\ isSpeaking' = TRUE
            /\ calls' = Append(calls,
                   NewCall(IF useCloudVoice THEN "cloud" ELSE "local",
                           "entered", 1))
    /\ UNCHANGED <<useCloudVoice, navVars, insightVars, otherVars, voiceVars, wr>>

\* setIsSpeaking(false) by call i, which moves to pc with the given exit
ClearBy(i, pc, exit, audio) ==
    /\ isSpeaking' = FALSE
    /\ calls' = [calls EXCEPT ![i] = [@ EXCEPT !.pc = pc, !.clears = @ + 1,
                                               !.exit = exit,
                                               !.audio = audio]]
    /\ UNCHANGED <<useCloudVoice, navVars, insightVars, otherVars, voiceVars, wr>>

\* call i changes its position without touching the flag
MoveTo(i, pc, dispatched, audio) ==
    /\ calls' = [calls EXCEPT ![i] = [@ EXCEPT !.pc = pc,
                                               !.dispatched = dispatched,
                                               !.audio = audio]]
    /\ UNCHANGED <<isSpeaking, useCloudVoice, navVars, insightVars, otherVars, voiceVars,
                   wr>>

At(i, pc) == i \in 1..Len(calls) /\ calls[i].pc = pc

\* a handler without the return: playCloudTTS then throws for the missing
\* key and the catch clears the flag a second time
NoCredential_FallsThrough(i) ==
    /\ At(i, "entered") /\ calls[i].backend = "cloud" /\ ~hasKey
    /\ isSpeaking' = FALSE
    /\ calls' = [calls EXCEPT ![i] = [@ EXCEPT !.pc = "done",
                                               !.clears = @ + 2,
                                               !.exit = "noKey",
                                               !.alerted = TRUE]]
    /\ UNCHANGED <<useCloudVoice, navVars, insightVars, otherVars, voiceVars, wr>>

\* a handler that returns after the alert without clearing the flag
NoCredential_KeepsSpeaking(i) ==
    /\ At(i, "entered") /\ calls[i].backend = "cloud" /\ ~hasKey
    /\ calls' = [calls EXCEPT ![i] = [@ EXCEPT !.pc = "done",
                                               !.exit = "noKey",
                                               !.alerted = TRUE]]
    /\ UNCHANGED <<isSpeaking, useCloudVoice, navVars, insightVars,
                   otherVars, voiceVars, wr>>

\* if (!apiKey) { alert(...); setIsSpeaking(false); return; }
NoCredential(i) ==
    /\ At(i, "entered") /\ calls[i].backend = "cloud" /\ ~hasKey
    /\ isSpeaking' = FALSE
    /\ calls' = [calls EXCEPT ![i] = [@ EXCEPT !.pc = "done",
                                               !.clears = @ + 1,
                                               !.exit = "noKey",
                                               !.alerted = TRUE]]
    /\ UNCHANGED <<useCloudVoice, navVars, insightVars, otherVars,
                   voiceVars, wr>>

\* await playCloudTTS(...): the request is sent with fetch()
CloudDispatch(i) ==
    /\ At(i, "entered") /\ calls[i].backend = "cloud" /\ hasKey
    /\ MoveTo(i, "fetch", TRUE, "none")

\* speechSynthesis.cancel(); speechSynthesis.speak(utterance)
LocalSpeak(i) ==
    /\ At(i, "entered") /\ calls[i].backend = "local"
    /\ MoveTo(i, "utter", TRUE, "none")

\* the local branch throws before the utterance is handed over: catch
LocalThrows(i) ==
    /\ At(i, "entered") /\ calls[i].backend = "local"
    /\ ClearBy(i, "done", "thrown", "none")

\* fetch rejects, or the response is not ok: playCloudTTS rethrows, the
\* catch of playPronunciation clears the flag
FetchFails(i) ==
    /\ At(i, "fetch")
    /\ ClearBy(i, "done", "requestFailed", "none")

\* the response is ok: new Audio(dataUrl); audio.play()
FetchResponds(i) ==
    /\ At(i, "fetch")
    /\ MoveTo(i, "play", TRUE, "none")

\* audio.play() resolves (playback has started): resolve(audio), then
\* setIsSpeaking(false) after the await
PlayResolves(i) ==
    /\ At(i, "play")
    /\ ClearBy(i, "done", "cloudSuccess", "playing")

\* audio.play() rejects or audio.onerror fires first: reject, catch
PlayRejects(i) ==
    /\ At(i, "play")
    /\ ClearBy(i, "done", "playbackFailed", "failed")

\* audio.onended: audio.src = ""
AudioEnded(i) ==
    /\ i \in 1..Len(calls) /\ calls[i].audio = "playing"
    /\ MoveTo(i, calls[i].pc, calls[i].dispatched, "ended")

\* audio.onerror during playback: reject() of a promise already resolved
AudioFailsLate(i) ==
    /\ i \in 1..Len(calls) /\ calls[i].audio = "playing"
    /\ MoveTo(i, calls[i].pc, calls[i].dispatched, "failed")

\* utterance.onend = () => setIsSpeaking(false)
UtteranceEnd(i) ==
    /\ At(i, "utter")
    /\ ClearBy(i, "done", "localEnd", "none")

\* an onerror handler that only logs
UtteranceError_OnlyLogs(i) ==
    /\ At(i, "utter")
    /\ MoveTo(i, "done", TRUE, "none")

\* utterance.onerror = (e) => { console.error(...); setIsSpeaking(false) }
UtteranceError(i) ==
    /\ At(i, "utter")
    /\ ClearBy(i, "done", "localError", "none")

\* onClick={() => setUseCloudVoice(!useCloudVoice)}
ToggleCloudVoice ==
    /\ ~HandlerRunning
    /\ useCloudVoice' = ~useCloudVoice
    /\ UNCHANGED <<isSpeaking, calls, navVars, insightVars, otherVars, voiceVars, wr>>

\* the rest of the handler, and the answers of the network, the audio
\* element and the speech engine to call i
Answer(i) ==
    \/ NoCredential(i)
    \/ CloudDispatch(i)
    \/ LocalSpeak(i)
    \/ LocalThrows(i)
    \/ FetchFails(i)
    \/ FetchResponds(i)
    \/ PlayResolves(i)
    \/ PlayRejects(i)
    \/ UtteranceEnd(i)
    \/ UtteranceError(i)

\* pronunciation is tried on a character of the default text and, in a
\* build without a credential, also after the auto-advance has moved
\* currentIndex past the last character (currentChar is then '')
InitSpeak ==
    /\ hasKey \in BOOLEAN
    /\ currentIndex \in (IF hasKey THEN {0} ELSE {0, Len(DEFAULT_TEXT)})
    /\ InitApp
    /\ NoVoices
    /\ dec = DecIdle
    /\ wr = WrIdle

NextSpeak ==
    \/ playPronunciation
    \/ ToggleCloudVoice
    \/ \E i \in 1..MaxCalls : Answer(i)
    \/ \E i \in 1..MaxCalls : AudioEnded(i)
    \/ \E i \in 1..MaxCalls : AudioFailsLate(i)

SpecSpeak == InitSpeak /\ [][NextSpeak]_vars

\* every request, playback and utterance is eventually answered
FairSpecSpeak == SpecSpeak /\ WF_vars(\E i \in 1..MaxCalls : Answer(i))

---------------------------------------------------------------------------
(* The speech voices of the device: the list changes, the user toggles the
   script variant and the backend and picks voices by hand *)

\* after mount: loadVoices() has run once, then the auto-selection effect
InitVoice ==
    /\ hasKey = FALSE
    /\ currentIndex = 0
    /\ InitApp
    /\ wr = WrIdle
    /\ voices \in VoiceLists
    /\ selectedVoice = AutoSelect(voices, FALSE, NoVoice)
    /\ dec = DecIdle

NextVoice ==
    \/ \E vs \in VoiceLists : VoicesChanged(vs)
    \/ \E v \in DeviceVoices : SelectVoice(v)
    \/ \E b \in BOOLEAN : handleToggleSimplified(b)
    \/ ToggleCloudVoice

SpecVoice == InitVoice /\ [][NextVoice]_vars

---------------------------------------------------------------------------
(* C1: in every reachable state 0 <= currentIndex < length(characters) *)
C1_IndexInRange ==
    /\ 0 <= currentIndex
    /\ currentIndex < Len(Characters(activeText))

(* C2: when a fetch requested for a character other than the current one *)
(* resolves, the displayed insights are left as they are *)
C2_StaleResultNotApplied ==
    [][\A f \in inflight :
          ( /\ f.id \notin {g.id : g \in inflight'}
            /\ f.char # CurrentChar )
          => insights' = insights]_vars

(* C10: a call made for a character after a call for it resolved with a *)
(* value returns that first resolved value and does not invoke the remote *)
(* service *)
C10_LaterCallsReturnStored ==
    lastCall.char # "" =>
        /\ lastCall.ret = firstResolved[lastCall.char]
        /\ ~lastCall.remote

---------------------------------------------------------------------------
(* Properties of withRetry *)

\* the first n invocations of fn all failed with a rate-limit signal
AllRate(n) ==
    \A i \in 1..n : wr.outcomes[i].kind = "error" /\ Has429(wr.outcomes[i])

\* the waits made so far are delay0, 2*delay0, 4*delay0, ...
DoublingWaits ==
    \A i \in 1..Len(wr.waits) : wr.waits[i] = wr.delay0 * 2^(i - 1)

(* C7: withRetry invokes fn at most retries+1 times *)
C7_AtMostRetriesPlusOne ==
    wr.attempts <= wr.retries0 + 1

C7_Witness ==
    /\ wr.pc = "thrown"
    /\ wr.retries0 >= 2
    /\ wr.attempts = wr.retries0 + 1

(* C8: a failure of fn without a rate-limit signal is the last invocation: *)
(* no wait follows it, and withRetry throws that same failure *)
C8_NonRateLimitPropagates ==
    \A i \in 1..Len(wr.outcomes) :
        (wr.outcomes[i].kind = "error" /\ ~Has429(wr.outcomes[i])) =>
            /\ i = Len(wr.outcomes)
            /\ wr.attempts = i
            /\ Len(wr.waits) = i - 1
            /\ wr.pc = "thrown"
            /\ wr.result = [kind |-> "error", id |-> i,
                            msg |-> wr.outcomes[i].msg]

C8_Witness ==
    /\ wr.pc = "thrown"
    /\ wr.retries >= 1
    /\ wr.attempts >= 2
    /\ wr.result.msg = "no429"

(* C9: k rate-limit failures followed by a success: with retries >= k the *)
(* run returns the value after exactly k waits of delay, 2*delay, ...; with *)
(* retries < k it throws the rate-limit failure after retries+1 invocations *)
C9_BackoffSchedule ==
    LET n == Len(wr.outcomes) IN
    /\ (n >= 1 /\ AllRate(n) /\ n <= wr.retries0) =>
           /\ wr.pc \in {"wait", "call"}
           /\ Len(wr.waits) = n
           /\ DoublingWaits
    /\ (n >= 1 /\ AllRate(n - 1) /\ wr.outcomes[n].kind = "ok") =>
           /\ wr.pc = "returned"
           /\ wr.result = [kind |-> "value", id |-> n, msg |-> "none"]
           /\ n - 1 <= wr.retries0
           /\ Len(wr.waits) = n - 1
           /\ DoublingWaits
    /\ (AllRate(n) /\ n > wr.retries0) =>
           /\ wr.pc = "thrown"
           /\ wr.result = [kind |-> "error", id |-> n, msg |-> "has429"]
           /\ wr.attempts = wr.retries0 + 1
           /\ Len(wr.waits) = wr.retries0

C9_Witness ==
    /\ wr.pc = "returned"
    /\ Len(wr.waits) = 2
    /\ wr.waits[2] = 2 * wr.delay0
    /\ wr.delay0 = 500

---------------------------------------------------------------------------
(* Properties of playPronunciation *)

(* C3: a call that set isSpeaking clears it exactly once: never more than *)
(* once, and once when the call is over, whatever the exit path *)
C3_ClearedExactlyOnce ==
    \A i \in 1..Len(calls) :
        /\ calls[i].clears <= calls[i].sets
        /\ (calls[i].pc = "done") => (calls[i].sets = 1 /\ calls[i].clears = 1)

C3_Witness ==
    \E i, j, k \in 1..Len(calls) :
        /\ calls[i].exit = "noKey" /\ calls[i].clears = 1
        /\ calls[j].exit = "localError" /\ calls[j].clears = 1
        /\ calls[k].exit = "thrown" /\ calls[k].clears = 1

(* C4: a call made while isSpeaking is true or the current character is *)
(* empty dispatches nothing and changes no state; any other call sets *)
(* isSpeaking before a request or an utterance is started, so that a *)
(* request or utterance is only ever started while isSpeaking is true *)
C4_GuardedEntry ==
    [][ /\ (Len(calls') = Len(calls) + 1) =>
            LET c == calls'[Len(calls')] IN
            /\ SubSeq(calls', 1, Len(calls)) = calls
            /\ ~c.dispatched
            /\ IF isSpeaking \/ CurrentChar = ""
               THEN /\ c = NewCall("none", "noop", 0)
                    /\ UNCHANGED <<isSpeaking, useCloudVoice, navVars,
                                   insightVars, otherVars, voiceVars, wr>>
               ELSE /\ c.pc = "entered"
                    /\ isSpeaking'
        /\ \A i \in 1..Len(calls) :
             /\ (calls[i].pc = "noop") => (calls'[i] = calls[i])
             /\ (~calls[i].dispatched /\ calls'[i].dispatched) =>
                    (isSpeaking /\ isSpeaking' /\ calls[i].sets = 1)
      ]_vars

C4_Witness ==
    \E i, j, k \in 1..Len(calls) :
        /\ i < j /\ j < k
        /\ calls[i].dispatched /\ calls[i].pc = "done"
        /\ calls[j].pc = "noop"
        /\ calls[k].dispatched

(* C5: while audio started by a cloud pronounce is playing isSpeaking is *)
(* true, and at most one pronunciation is in flight or audible *)
C5_SpeakingWhileAudible ==
    /\ \A i \in 1..Len(calls) : (calls[i].audio = "playing") => isSpeaking
    /\ Cardinality({i \in 1..Len(calls) :
                      \/ calls[i].audio = "playing"
                      \/ calls[i].pc \in {"entered", "fetch", "play",
                                          "utter"}}) <= 1

(* C6: every call that set isSpeaking eventually clears it when every *)
(* request, playback and utterance is answered, and a call made after the *)
(* flag was cleared, on a character, enters and is dispatched or finished *)
C6_EventuallyCleared ==
    /\ \A i \in 1..MaxCalls :
         (Len(calls) >= i /\ calls[i].sets = 1) ~>
             (Len(calls) >= i /\ calls[i].clears = 1)
    /\ \A i \in 1..MaxCalls :
         (Len(calls) >= i /\ calls[i].pc = "entered") ~>
             (Len(calls) >= i /\
                (calls[i].dispatched \/ calls[i].pc = "done"))
    /\ [][ (/\ Len(calls') = Len(calls) + 1
            /\ ~isSpeaking
            /\ CurrentChar # "")
           => calls'[Len(calls')].pc = "entered" ]_vars

C6_Witness ==
    \E i, j \in 1..Len(calls) :
        /\ i < j
        /\ calls[i].exit = "localError" /\ calls[i].clears = 1
        /\ calls[j].dispatched /\ calls[j].backend = "cloud"
        /\ calls[j].exit = "cloudSuccess"

(* C11: a getCharacterInsights call that settles on a failure (a rejected *)
(* request, retries included, text that is not JSON, or an answer that *)
(* lacks a required field) returns null and leaves the cache as it was *)
C11_FailureLeavesNoTrace ==
    [][ (svc'.ev = "settle" /\ svc'.kind \in {"error", "badjson", "okMissing"})
        => (svc'.ret = Null /\ insightsCache' = insightsCache) ]_vars

(* C12: an answer that lacks a required field is never stored in the cache *)
(* and the call that received it returns null *)
C12_IncompleteAnswerRejected ==
    /\ \A c \in NonWsChars : Cached(c) => insightsCache[c].complete
    /\ (svc.ev = "settle" /\ svc.kind = "okMissing") => svc.ret = Null

(* C13: a value stored in the insight cache is never removed nor replaced *)
(* by a different value, also when two calls for one character overlap *)
C13_CacheOnlyGrows ==
    [][ \A c \in NonWsChars :
          Cached(c) => insightsCache'[c] = insightsCache[c] ]_vars

(* C14: a call made without a credential or with the empty character *)
(* returns null at once, sends no remote request and leaves the cache and *)
(* the pending calls as they were *)
C14_AbsentWithoutRequest ==
    [][ \A c \in ServiceChars :
          (getCharacterInsights(c) /\ (~hasKey \/ c = ""))
          => /\ svc'.ev = "return"
             /\ svc'.ret = Null
             /\ remoteCalls' = remoteCalls
             /\ inflight' = inflight
             /\ insightsCache' = insightsCache ]_vars

C14_Witness ==
    /\ svc.ev = "return" /\ svc.char = "" /\ svc.ret = Null
    /\ hasKey
    /\ \E c \in NonWsChars : Cached(c)
    /\ inflight # {}

\* the character c written in the variant of the mode simp
InVariant(simp, c) == IF simp THEN Tw2CnChar(c) ELSE Cn2TwChar(c)

\* a step that changes the displayed sequence or the position
SequenceOrIndexChanges ==
    \/ Characters(activeText') # Characters(activeText)
    \/ currentIndex' # currentIndex

\* text update or navigation: next, prev (clicked or run by the auto-advance
\* timer) and jump
UpdateOrNavigation ==
    \/ handleUpdateText
    \/ handleNext
    \/ handlePrev
    \/ TimerFires
    \/ \E idx \in 0..(Len(Characters(activeText)) - 1) : JumpTo(idx)

(* C15 as stated: after a text update the active sequence is the *)
(* non-whitespace characters of the input, in order, and the index is 0 *)
C15_ActiveIsInputFiltered ==
    [][ handleUpdateText
        => /\ Characters(activeText') = Characters(inputText)
           /\ currentIndex' = 0 ]_vars

(* C15 amended: an update is accepted only for an input with a *)
(* non-whitespace character; the active sequence is then the non-whitespace *)
(* characters of the input, in order, each written in the current script *)
(* variant, and the index is 0 *)
C15_ActiveIsConvertedInput ==
    [][ handleUpdateText
        => LET typed == Characters(inputText) IN
             /\ Len(typed) > 0
             /\ Characters(activeText') =
                  [i \in 1..Len(typed) |-> InVariant(isSimplified, typed[i])]
             /\ currentIndex' = 0 ]_vars

C15_Witness ==
    /\ activeText = <<"dongT", "sp", "yong">>
    /\ inputText = activeText
    /\ currentIndex = 0
    /\ ~isSimplified

(* C16: handleNext and handlePrev move the index by one when the target *)
(* lies in [0, length-1] and leave it unchanged otherwise *)
C16_StepByOneInsideRange ==
    [][ LET last == Len(Characters(activeText)) - 1 IN
        /\ (handleNext \/ TimerFires)
           => currentIndex' = IF currentIndex + 1 \in 0..last
                              THEN currentIndex + 1 ELSE currentIndex
        /\ handlePrev
           => currentIndex' = IF currentIndex - 1 \in 0..last
                              THEN currentIndex - 1 ELSE currentIndex ]_vars

(* C17 as stated: only the text update and navigation change the active *)
(* sequence or the index *)
C17_OnlyUpdateAndNavigation ==
    [][ SequenceOrIndexChanges => UpdateOrNavigation ]_vars

(* C17 amended: besides the text update and navigation, only the script *)
(* toggle changes the active sequence, writing every character in the new *)
(* variant and keeping the length and the index; nothing else changes the *)
(* sequence or the index *)
C17_OnlyUpdateNavigationAndToggle ==
    [][ SequenceOrIndexChanges
        => \/ UpdateOrNavigation
           \/ \E b \in BOOLEAN :
                /\ handleToggleSimplified(b)
                /\ currentIndex' = currentIndex
                /\ Characters(activeText') =
                     [i \in 1..Len(Characters(activeText)) |->
                        InVariant(b, Characters(activeText)[i])] ]_vars

C17_Witness ==
    /\ isSimplified
    /\ activeText = <<"dongS", "sp", "yong">>
    /\ currentIndex = 1

(* C18: once a cloud pronunciation of a character has succeeded, a later *)
(* cloud pronunciation of the same character sends no synthesis request *)
C18_CachedAudioNotRequestedAgain ==
    \A i, j \in 1..Len(calls) :
        (/\ i < j
         /\ calls[i].backend = "cloud" /\ calls[i].exit = "cloudSuccess"
         /\ calls[j].backend = "cloud" /\ calls[j].char = calls[i].char)
        => ~calls[j].dispatched

(* C19: a cloud pronunciation entered without a credential ends in the same *)
(* handler run with the message shown, no request sent, and isSpeaking false *)
C19_NoCredentialFailsFast ==
    [][ \A i \in 1..Len(calls) :
          (/\ At(i, "entered") /\ calls[i].backend = "cloud" /\ ~hasKey
           /\ calls'[i] # calls[i])
          => /\ calls'[i].pc = "done"
             /\ calls'[i].alerted
             /\ ~calls'[i].dispatched
             /\ calls'[i].audio = "none"
             /\ ~isSpeaking' ]_vars

C19_Witness ==
    /\ ~hasKey
    /\ ~isSpeaking
    /\ \E i \in 1..Len(calls) :
         /\ calls[i].backend = "cloud" /\ calls[i].char = "yong"
         /\ calls[i].pc = "done" /\ calls[i].alerted
         /\ ~calls[i].dispatched

\* the voice the priority rule names for the list vs in the mode simp:
\* the first with a preferred name, else the first with the target language,
\* else the first whose language starts with zh, else none (NoVoice)
FirstWhere(vs, S) ==
    IF \E i \in 1..Len(vs) : vs[i] \in S
    THEN LET k == CHOOSE i \in 1..Len(vs) :
                     vs[i] \in S /\ \A j \in 1..(i - 1) : vs[j] \notin S
         IN  vs[k]
    ELSE NoVoice

ByPriority(vs, simp) ==
    LET named == {v \in DeviceVoices :
                    \E n \in PreferredNames(simp) : Includes(v.name, n)}
        exact == {v \in DeviceVoices : v.lang = TargetLang(simp)}
        zh    == {v \in DeviceVoices : v.lang[1] = "zh"}
    IN  IF FirstWhere(vs, named) # NoVoice THEN FirstWhere(vs, named)
        ELSE IF FirstWhere(vs, exact) # NoVoice THEN FirstWhere(vs, exact)
        ELSE FirstWhere(vs, zh)

\* a step in which the auto-selection effect runs: the voice list or the
\* script variant is new
AutoSelectionRuns == voices' # voices \/ isSimplified' # isSimplified

(* C20 as stated: after auto-selection the selected voice is the one the *)
(* priority rule names, and no voice is selected when the rule names none *)
C20_SelectedByPriorityElseNone ==
    [][ AutoSelectionRuns
        => selectedVoice' = ByPriority(voices', isSimplified') ]_vars

(* C20 amended: after auto-selection the selected voice is the one the *)
(* priority rule names; when the rule names none (no voice with a preferred *)
(* name or a zh language, or an empty list) the selection is left as it was *)
C20_SelectedByPriorityElseKept ==
    [][ AutoSelectionRuns
        => selectedVoice' =
             IF ByPriority(voices', isSimplified') # NoVoice
             THEN ByPriority(voices', isSimplified')
             ELSE selectedVoice ]_vars

C20_Witness ==
    /\ isSimplified
    /\ voices = << [name |-> <<"Yating">>, lang |-> <<"zh", "TW">>],
                   [name |-> <<"Microsoft", "Xiaoxiao", "Online">>,
                    lang |-> <<"zh", "CN">>] >>
    /\ selectedVoice = voices[2]

\* sample k (from 0) of a buffer of signed 16-bit samples, low byte first
SignedSample(data, k) ==
    LET u == data[2 * k + 1] + 256 * data[2 * k + 2]
    IN  ((u + 32768) % 65536) - 32768

\* the decoded buffer has numChannels channels of samples / numChannels
\* frames, and frame i of channel c is sample i * numChannels + c over 32768
DecodedAsInterleaved ==
    LET n == dec.numChannels
        samples == Len(dec.data) \div 2
        out == dec.result
    IN  /\ out.status = "ok"
        /\ Len(out.channels) = n
        /\ \A c \in 1..n :
             /\ Len(out.channels[c]) = samples \div n
             /\ \A i \in 1..(samples \div n) :
                  /\ out.channels[c][i].num =
                       SignedSample(dec.data, (i - 1) * n + (c - 1))
                  /\ out.channels[c][i].den = 32768

\* the buffer holds whole samples and whole frames
WholeFrames ==
    /\ Len(dec.data) % 2 = 0
    /\ (Len(dec.data) \div 2) % dec.numChannels = 0

(* C21 as stated: every buffer of whole frames is decoded into channel *)
(* buffers of samples / channelCount frames, frame i of channel c being *)
(* sample i * channelCount + c divided by 32768 *)
C21_WholeFramesDecoded ==
    (dec.pc = "done" /\ WholeFrames) => DecodedAsInterleaved

(* C21 amended: the same for every buffer of whole frames that holds at *)
(* least one frame; the empty buffer is rejected *)
C21_NonEmptyWholeFramesDecoded ==
    (dec.pc = "done" /\ WholeFrames)
    => IF Len(dec.data) = 0 THEN dec.result.status = "error"
       ELSE DecodedAsInterleaved

C21_Witness ==
    /\ dec.pc = "done"
    /\ dec.numChannels = 2
    /\ dec.data = <<1, 0, 0, 128, 1, 128, 1, 1>>
    /\ dec.result.status = "ok"
    /\ dec.result.channels[2][1].num = -32768

(* C22: a byte length that is not a multiple of 2 * channelCount makes the *)
(* decoder fail with an error *)
C22_PartialFrameRejected ==
    (dec.pc = "done" /\ Len(dec.data) % (2 * dec.numChannels) # 0)
    => dec.result.status = "error"

(* C23: the auto-advance timer of a quiz completed at position i moves the *)
(* index only when the index is still i, and then to i + 1; after the user *)
(* moved away it leaves the index as it is *)
C23_TimerAdvancesOnlyFromItsPosition ==
    [][ TimerFires
        => currentIndex' = IF currentIndex = Head(timers).idx
                           THEN currentIndex + 1 ELSE currentIndex ]_vars

(* C24: isLoadingInsights is true exactly while some insight fetch is in *)
(* flight *)
C24_LoadingIffInFlight == isLoadingInsights <=> (inflight # {})

(* C25: a viewer writer whose component was unmounted starts no further *)
(* animation and schedules no further loop timer *)
C25_UnmountedLoopStops ==
    [][ \A w \in 1..Len(wb.writers) :
          (wb.writers[w].role = "viewer" /\ wb.writers[w].inst # wb.viewer)
          => \/ wb'.writers[w].loop = wb.writers[w].loop
             \/ wb'.writers[w].loop = "stopped" ]_vars

(* C26: a render that changes neither character, speed nor the quiz size *)
(* keeps the quiz writer of the mounted quiz board: it is not cancelled and *)
(* stays the board's current writer *)
C26_QuizKeptByUnrelatedRender ==
    [][ (/\ wb'.props.char = wb.props.char
         /\ wb'.props.speed = wb.props.speed
         /\ wb'.props.qsize = wb.props.qsize)
        => \A w \in 1..Len(wb.writers) :
             (/\ wb.writers[w].role = "quiz"
              /\ wb.writers[w].inst = wb.quiz
              /\ wb.writers[w].current)
             => /\ wb'.writers[w].current
                /\ wb'.writers[w].quiz # "cancelled" ]_vars

(* C27: activeText always holds at least one non-whitespace character *)
C27_ActiveNeverEmpty == Len(Characters(activeText)) > 0

C27_Witness ==
    /\ ~TrimTruthy(inputText)
    /\ inputText # <<>>
    /\ activeText = <<"he">>
    /\ Len(Characters(activeText)) = 1

=============================================================================
